---- MODULE Spec2Model ----
(***************************************************************************)
(* gcc-time-trace-plugin: the event tracker (src/src/event.hpp), the trace *)
(* writer (writer.hpp) and the part of finish_callback (src/src/plugin.cpp)*)
(* that replays the recorded events into the tracker and closes the        *)
(* document.                                                               *)
(***************************************************************************)
EXTENDS Integers, Sequences, FiniteSets, TLC

(* ------------------------------ bounds --------------------------------- *)

\* number of events replayed into the tracker
MaxEvents == 4

\* the steady clock advances by one nanosecond every ClockPeriod readings, so
\* that consecutive readings can be equal
ClockPeriod == 2

\* function declarations are 1..MaxDecl
MaxDecl == 2

(* ---------------------------- event model ------------------------------ *)

\* NULL_TREE
NULL_TREE == 0

\* -1u, the uid of a pass event that has no function (the unsigned value with
\* every bit set, written here as -1)
NoUid == -1

\* DECL_PT_UID(decl): the integer key of a declaration
DECL_PT_UID(decl) == decl

\* EventClock::now() at the n-th reading of the clock, in nanoseconds since
\* the writer's epoch
now(n) == n \div ClockPeriod

\* EventRecord<E>: the event's fields and the timestamp taken at construction.
\* cat stands for the template argument E; seq is the identity of the record
\* (its position in the order of submission).
EventRecord(cat, kind, filename, name, decl, uid, timestamp, seq) ==
  [cat |-> cat, kind |-> kind, filename |-> filename, name |-> name,
   decl |-> decl, uid |-> uid, timestamp |-> timestamp, seq |-> seq]

\* the null pointer handed to a match callback
nullptr == EventRecord("none", "none", "", "", NULL_TREE, 0, 0, 0)

UnitEventKind == {"Start", "End"}

IncludeEventKind == {"Enter", "Leave"}

ParseEventKind == {"Start", "PreGenericize", "Finish"}

PassEventKind == {"Start", "End"}

\* file names carried by Include Enter events
FileNames == {"a.h", "b.h"}

\* pass names with the function each is run on: "p" is a pass reported by
\* pass_execution_callback / a Single marker (no function), "q" is a pass list
\* bracketed by StartList / EndList markers (current_function_decl)
PassTargets == {[name |-> "p", decl |-> NULL_TREE], [name |-> "q", decl |-> 1]}

FnDecls == 1..MaxDecl

(* ------------------------ callback invocations ------------------------- *)

\* WriteCallback::on_match(start, end), as one entry of the call log
on_match(start, end) == [op |-> "on_match", start |-> start, end |-> end]

\* WriteCallback::on_mismatch(end), as one entry of the call log
on_mismatch(end) == [op |-> "on_mismatch", start |-> nullptr, end |-> end]

\* DefaultMatchCallback that drops an end that has no start
DefaultMatchCallback_silent(start, end) ==
  IF start # nullptr THEN <<on_match(start, end)>> ELSE <<>>

\* DefaultMatchCallback passing the pair to on_match in the wrong order
DefaultMatchCallback_swapped(start, end) ==
  IF start # nullptr THEN <<on_match(end, start)>> ELSE <<on_mismatch(end)>>

\* EventTracker::DefaultMatchCallback::operator()
DefaultMatchCallback(start, end) ==
  IF start # nullptr THEN <<on_match(start, end)>> ELSE <<on_mismatch(end)>>

(* ------------------------------ tracker -------------------------------- *)

\* std::forward_list::push_front on the stack of a key, operator[] creating
\* the stack when the key is absent
push_front_map(stack_dict, key, record) ==
  [k \in DOMAIN stack_dict \cup {key} |->
     IF k = key
       THEN <<record>> \o (IF key \in DOMAIN stack_dict THEN stack_dict[key] ELSE <<>>)
       ELSE stack_dict[k]]

\* try_match_stack matching the oldest pending entry instead of the newest
try_match_stack_fifo(stack) ==
  IF stack # <<>>
    THEN [start |-> stack[Len(stack)], stack |-> SubSeq(stack, 1, Len(stack) - 1)]
    ELSE [start |-> nullptr, stack |-> stack]

\* EventTracker::try_match_stack: the record handed to the callback (nullptr
\* when the stack is empty) and the stack after the call
try_match_stack(stack) ==
  IF stack # <<>>
    THEN [start |-> Head(stack), stack |-> Tail(stack)]
    ELSE [start |-> nullptr, stack |-> stack]

\* try_match_map that leaves a drained stack in the map
try_match_map_noerase(stack_dict, key) ==
  IF key \in DOMAIN stack_dict
    THEN LET m == try_match_stack(stack_dict[key])
         IN  [start |-> m.start, dict |-> [stack_dict EXCEPT ![key] = m.stack]]
    ELSE [start |-> nullptr, dict |-> stack_dict]

\* EventTracker::try_match_map: the record handed to the callback and the
\* map after the call
try_match_map(stack_dict, key) ==
  IF key \in DOMAIN stack_dict
    THEN LET m == try_match_stack(stack_dict[key])
         IN  [start |-> m.start,
              dict  |-> IF m.stack = <<>>
                          THEN [k \in DOMAIN stack_dict \ {key} |-> stack_dict[k]]
                          ELSE [stack_dict EXCEPT ![key] = m.stack]]
    ELSE [start |-> nullptr, dict |-> stack_dict]

\* EventTracker::push_event(EventRecord<UnitEvent>)
push_event_unit(T, record) ==
  IF record.kind = "Start"
    THEN [T |-> [T EXCEPT !.unit = <<record>> \o @], out |-> <<>>]
    ELSE LET m == try_match_stack(T.unit)
         IN  [T |-> [T EXCEPT !.unit = m.stack],
              out |-> DefaultMatchCallback(m.start, record)]

\* EventTracker::push_event(EventRecord<IncludeEvent>)
push_event_include(T, record) ==
  IF record.kind = "Enter"
    THEN [T |-> [T EXCEPT !.include = <<record>> \o @], out |-> <<>>]
    ELSE LET m == try_match_stack(T.include)
         IN  [T |-> [T EXCEPT !.include = m.stack],
              out |-> DefaultMatchCallback(m.start, record)]

\* push_event for Parse events with a PreGenericize that goes through
\* DefaultMatchCallback, reporting a mismatch when no Start is pending
push_event_parse_report(T, record) ==
  CASE record.kind = "Start" ->
         [T |-> [T EXCEPT !.parse = push_front_map(@, record.uid, record)],
          out |-> <<>>]
    [] record.kind = "PreGenericize" ->
         LET m == try_match_map(T.parse, record.uid)
         IN  [T |-> [T EXCEPT !.genericize = push_front_map(@, record.uid, record),
                              !.parse = m.dict],
              out |-> DefaultMatchCallback(m.start, record)]
    [] record.kind = "Finish" ->
         LET m == try_match_map(T.parse, record.uid)
         IN  IF m.start # nullptr
               THEN [T |-> [T EXCEPT !.parse = m.dict],
                     out |-> <<on_match(m.start, record)>>]
               ELSE LET g == try_match_map(T.genericize, record.uid)
                    IN  [T |-> [T EXCEPT !.parse = m.dict, !.genericize = g.dict],
                         out |-> DefaultMatchCallback(g.start, record)]

\* push_event for Parse events with a Finish that tries both maps
push_event_parse_both(T, record) ==
  CASE record.kind = "Start" ->
         [T |-> [T EXCEPT !.parse = push_front_map(@, record.uid, record)],
          out |-> <<>>]
    [] record.kind = "PreGenericize" ->
         LET m == try_match_map(T.parse, record.uid)
         IN  [T |-> [T EXCEPT !.genericize = push_front_map(@, record.uid, record),
                              !.parse = m.dict],
              out |-> IF m.start # nullptr THEN <<on_match(m.start, record)>> ELSE <<>>]
    [] record.kind = "Finish" ->
         LET m == try_match_map(T.parse, record.uid)
             g == try_match_map(T.genericize, record.uid)
         IN  [T |-> [T EXCEPT !.parse = m.dict, !.genericize = g.dict],
              out |-> IF m.start # nullptr
                        THEN <<on_match(m.start, record)>>
                        ELSE DefaultMatchCallback(g.start, record)]

\* push_event for Parse events with a PreGenericize that only pushes and
\* leaves the parse-stack alone
push_event_parse_nopop(T, record) ==
  CASE record.kind = "Start" ->
         [T |-> [T EXCEPT !.parse = push_front_map(@, record.uid, record)],
          out |-> <<>>]
    [] record.kind = "PreGenericize" ->
         [T |-> [T EXCEPT !.genericize = push_front_map(@, record.uid, record)],
          out |-> <<>>]
    [] record.kind = "Finish" ->
         LET m == try_match_map(T.parse, record.uid)
         IN  IF m.start # nullptr
               THEN [T |-> [T EXCEPT !.parse = m.dict],
                     out |-> <<on_match(m.start, record)>>]
               ELSE LET g == try_match_map(T.genericize, record.uid)
                    IN  [T |-> [T EXCEPT !.parse = m.dict, !.genericize = g.dict],
                         out |-> DefaultMatchCallback(g.start, record)]

\* EventTracker::push_event(EventRecord<ParseEvent>)
push_event_parse(T, record) ==
  CASE record.kind = "Start" ->
         [T |-> [T EXCEPT !.parse = push_front_map(@, record.uid, record)],
          out |-> <<>>]
    [] record.kind = "PreGenericize" ->
         LET m == try_match_map(T.parse, record.uid)
         IN  [T |-> [T EXCEPT !.genericize = push_front_map(@, record.uid, record),
                              !.parse = m.dict],
              out |-> IF m.start # nullptr THEN <<on_match(m.start, record)>> ELSE <<>>]
    [] record.kind = "Finish" ->
         LET m == try_match_map(T.parse, record.uid)
         IN  IF m.start # nullptr
               THEN [T |-> [T EXCEPT !.parse = m.dict],
                     out |-> <<on_match(m.start, record)>>]
               ELSE LET g == try_match_map(T.genericize, record.uid)
                    IN  [T |-> [T EXCEPT !.parse = m.dict, !.genericize = g.dict],
                         out |-> DefaultMatchCallback(g.start, record)]

\* EventTracker::push_event(EventRecord<PassEvent>)
push_event_pass(T, record) ==
  IF record.kind = "Start"
    THEN [T |-> [T EXCEPT !.pass = push_front_map(@, record.name, record)],
          out |-> <<>>]
    ELSE LET m == try_match_map(T.pass, record.name)
         IN  [T |-> [T EXCEPT !.pass = m.dict],
              out |-> DefaultMatchCallback(m.start, record)]

\* a finish_stack that goes from the back of the stack to the front
finish_stack_back_first(stack) ==
  [i \in 1..Len(stack) |-> on_mismatch(stack[Len(stack) + 1 - i])]

\* EventTracker::finish_stack: one on_mismatch per entry, front to back
finish_stack(stack) == [i \in 1..Len(stack) |-> on_mismatch(stack[i])]

\* EventTracker::finish_map, iterating the unordered_map in the order `order`
RECURSIVE finish_map(_, _)
finish_map(stack_dict, order) ==
  IF order = <<>> THEN <<>>
  ELSE finish_stack(stack_dict[Head(order)]) \o finish_map(stack_dict, Tail(order))

\* the orders in which an unordered_map holding the keys S may be iterated
IterationOrders(S) ==
  {o \in [1..Cardinality(S) -> S] : \A i, j \in 1..Cardinality(S) : i # j => o[i] # o[j]}

\* finish that forgets the genericize map
finish_skip_genericize(T, po, go, so) ==
  [T |-> [unit |-> <<>>, include |-> <<>>, parse |-> <<>>,
          genericize |-> T.genericize, pass |-> <<>>],
   out |-> finish_stack(T.unit) \o finish_stack(T.include) \o finish_map(T.parse, po)
             \o finish_map(T.pass, so)]

\* finish that reports the pending entries and does not clear the collections
finish_noclear(T, po, go, so) ==
  [T |-> T,
   out |-> finish_stack(T.unit) \o finish_stack(T.include) \o finish_map(T.parse, po)
             \o finish_map(T.genericize, go) \o finish_map(T.pass, so)]

\* EventTracker::finish, given the iteration order of each of the three maps
finish(T, po, go, so) ==
  [T |-> [unit |-> <<>>, include |-> <<>>, parse |-> <<>>, genericize |-> <<>>, pass |-> <<>>],
   out |-> finish_stack(T.unit) \o finish_stack(T.include) \o finish_map(T.parse, po)
             \o finish_map(T.genericize, go) \o finish_map(T.pass, so)]

(* ------------------------------- writer -------------------------------- *)

\* the tokens of the document: the array delimiters, the separator and one
\* token per entry (everything SliceWriter and ArgWriter print between the
\* braces of one object)
OpenBracket == [t |-> "["]

CloseBracket == [t |-> "]"]

Comma == [t |-> ","]

\* lang_hooks.decl_printable_name(decl, verbosity)
decl_printable_name(decl) ==
  CASE decl = 1 -> "main"
    [] decl = 2 -> "operator\"\"_k"
    [] OTHER    -> "S::f"

\* the loop of get_decl_name: a backslash is put before every double quote
RECURSIVE escape_quotes(_)
escape_quotes(name) ==
  IF name = "" THEN ""
  ELSE (IF Head(name) = "\"" THEN "\\\"" ELSE Head(name)) \o escape_quotes(Tail(name))

\* a get_decl_name that does not look into the cache
get_decl_name_uncached(W, decl) ==
  LET uid == DECL_PT_UID(decl)
      escaped == escape_quotes(decl_printable_name(decl))
  IN  [W |-> [W EXCEPT !.decl_name_cache =
                [k \in DOMAIN @ \cup {uid} |-> IF k = uid THEN escaped ELSE @[k]],
                       !.lookups = Append(@, decl)],
       name |-> escaped]

\* TraceWriter::get_decl_name: the name returned and the writer after the
\* call; lookups records the calls of lang_hooks.decl_printable_name
get_decl_name(W, decl) ==
  LET uid == DECL_PT_UID(decl)
  IN  IF uid \in DOMAIN W.decl_name_cache
        THEN [W |-> W, name |-> W.decl_name_cache[uid]]
        ELSE LET escaped == escape_quotes(decl_printable_name(decl))
             IN  [W |-> [W EXCEPT !.decl_name_cache =
                           [k \in DOMAIN @ \cup {uid} |-> IF k = uid THEN escaped ELSE @[k]],
                                  !.lookups = Append(@, decl)],
                  name |-> escaped]

\* the / and % of C on long: the quotient is truncated toward zero and the
\* remainder has the sign of the dividend
c_div(a, b) == IF a >= 0 THEN a \div b ELSE -((-a) \div b)

c_rem(a, b) == a - b * c_div(a, b)

\* the conversion %03ld of fprintf: at least three characters, filled with
\* zeros after the sign
pad3(r) ==
  IF r >= 0
    THEN (IF r < 10 THEN "00" ELSE IF r < 100 THEN "0" ELSE "") \o ToString(r)
    ELSE "-" \o (IF -r < 10 THEN "0" ELSE "") \o ToString(-r)

\* fprintf(file, "%ld.%03ld", n / 1000, n % 1000): the text of a count n of
\* nanoseconds
print_us(n) == ToString(c_div(n, 1000)) \o "." \o pad3(c_rem(n, 1000))

\* a SliceWriter that prints the comma before the first entry too
SliceWriter_comma(W, name, start, end, args) ==
  LET ts  == start - W.epoch
      dur == end - start
      entry == [t |-> "slice", name |-> name, ts |-> ts, ts_text |-> print_us(ts),
                ph |-> IF dur > 0 THEN "X" ELSE "i",
                dur |-> IF dur > 0 THEN dur ELSE 0,
                dur_text |-> IF dur > 0 THEN print_us(dur) ELSE "",
                args |-> args]
  IN  [W EXCEPT !.doc = @ \o <<Comma>> \o <<entry>>,
                !.slice_count = @ + 1]

\* a SliceWriter that prints a duration entry when end = start too
SliceWriter_zero_dur(W, name, start, end, args) ==
  LET ts  == start - W.epoch
      dur == end - start
      entry == [t |-> "slice", name |-> name, ts |-> ts, ts_text |-> print_us(ts),
                ph |-> IF dur >= 0 THEN "X" ELSE "i",
                dur |-> IF dur >= 0 THEN dur ELSE 0,
                dur_text |-> IF dur >= 0 THEN print_us(dur) ELSE "",
                args |-> args]
  IN  [W EXCEPT !.doc = @ \o (IF W.slice_count > 0 THEN <<Comma>> ELSE <<>>) \o <<entry>>,
                !.slice_count = @ + 1]

\* TraceWriter::SliceWriter followed by the optional ArgWriter: one entry,
\* preceded by a comma unless it is the first. ts and dur are the counts of
\* nanoseconds, ts_text and dur_text what is printed for them; an entry
\* without a "dur" member has dur 0 and dur_text ""
SliceWriter(W, name, start, end, args) ==
  LET ts  == start - W.epoch
      dur == end - start
      entry == [t |-> "slice", name |-> name, ts |-> ts, ts_text |-> print_us(ts),
                ph |-> IF dur > 0 THEN "X" ELSE "i",
                dur |-> IF dur > 0 THEN dur ELSE 0,
                dur_text |-> IF dur > 0 THEN print_us(dur) ELSE "",
                args |-> args]
  IN  [W EXCEPT !.doc = @ \o (IF W.slice_count > 0 THEN <<Comma>> ELSE <<>>) \o <<entry>>,
                !.slice_count = @ + 1]

\* the "function" argument written through get_decl_name
function_arg(W, decl) ==
  LET n == get_decl_name(W, decl)
  IN  [W |-> n.W, args |-> <<[key |-> "function", value |-> n.name]>>]

\* TraceWriter::write_slice(start, end), the four overloads for matched pairs
write_slice_match(W, start, end) ==
  CASE start.cat = "unit" ->
         SliceWriter(W, "unit", start.timestamp, end.timestamp, <<>>)
    [] start.cat = "include" ->
         SliceWriter(W, "include", start.timestamp, end.timestamp,
                     <<[key |-> "file", value |-> start.filename]>>)
    [] start.cat = "parse" ->
         LET a == function_arg(W, start.decl)
         IN  SliceWriter(a.W, IF start.kind = "Start" THEN "parse" ELSE "genericize",
                         start.timestamp, end.timestamp, a.args)
    [] start.cat = "pass" ->
         IF start.decl # NULL_TREE
           THEN LET a == function_arg(W, start.decl)
                IN  SliceWriter(a.W, start.name, start.timestamp, end.timestamp, a.args)
           ELSE SliceWriter(W, start.name, start.timestamp, end.timestamp, <<>>)

\* write_slice for a single record that writes a marker for a Parse Start too
write_slice_single_all(W, end) ==
  CASE end.cat = "unit" ->
         SliceWriter(W, IF end.kind = "Start" THEN "unit (start)" ELSE "unit (end)",
                     end.timestamp, end.timestamp, <<>>)
    [] end.cat = "include" ->
         SliceWriter(W, IF end.kind = "Enter" THEN "include (enter)" ELSE "include (leave)",
                     end.timestamp, end.timestamp,
                     IF end.kind = "Enter"
                       THEN <<[key |-> "file", value |-> end.filename]>> ELSE <<>>)
    [] end.cat = "parse" ->
         LET name == CASE end.kind = "Start" -> "parse (start)"
                       [] end.kind = "PreGenericize" -> "genericize (start)"
                       [] OTHER -> "parse (finish)"
         IN  IF end.decl # NULL_TREE
               THEN LET a == function_arg(W, end.decl)
                    IN  SliceWriter(a.W, name, end.timestamp, end.timestamp, a.args)
               ELSE SliceWriter(W, name, end.timestamp, end.timestamp, <<>>)
    [] end.cat = "pass" ->
         LET name == end.name \o (IF end.kind = "Start" THEN " (start)" ELSE " (cancelled)")
         IN  IF end.decl # NULL_TREE
               THEN LET a == function_arg(W, end.decl)
                    IN  SliceWriter(a.W, name, end.timestamp, end.timestamp, a.args)
               ELSE SliceWriter(W, name, end.timestamp, end.timestamp, <<>>)

\* TraceWriter::write_slice(end), the four overloads for a single record
write_slice_single(W, end) ==
  CASE end.cat = "unit" ->
         SliceWriter(W, IF end.kind = "Start" THEN "unit (start)" ELSE "unit (end)",
                     end.timestamp, end.timestamp, <<>>)
    [] end.cat = "include" ->
         SliceWriter(W, IF end.kind = "Enter" THEN "include (enter)" ELSE "include (leave)",
                     end.timestamp, end.timestamp,
                     IF end.kind = "Enter"
                       THEN <<[key |-> "file", value |-> end.filename]>> ELSE <<>>)
    [] end.cat = "parse" ->
         IF end.kind = "Start" THEN W
         ELSE LET name == IF end.kind = "PreGenericize"
                            THEN "genericize (start)" ELSE "parse (finish)"
              IN  IF end.decl # NULL_TREE
                    THEN LET a == function_arg(W, end.decl)
                         IN  SliceWriter(a.W, name, end.timestamp, end.timestamp, a.args)
                    ELSE SliceWriter(W, name, end.timestamp, end.timestamp, <<>>)
    [] end.cat = "pass" ->
         LET name == end.name \o (IF end.kind = "Start" THEN " (start)" ELSE " (cancelled)")
         IN  IF end.decl # NULL_TREE
               THEN LET a == function_arg(W, end.decl)
                    IN  SliceWriter(a.W, name, end.timestamp, end.timestamp, a.args)
               ELSE SliceWriter(W, name, end.timestamp, end.timestamp, <<>>)

\* TraceWriter::write_slice(name, start, end)
write_slice_custom(W, name, start, end) == SliceWriter(W, name, start, end, <<>>)

\* WriteCallback::on_match / on_mismatch run on the writer for one logged call
WriteCallback(W, call) ==
  IF call.op = "on_match" THEN write_slice_match(W, call.start, call.end)
  ELSE write_slice_single(W, call.end)

\* the writer after the callback has run for each call of `out`, in order
RECURSIVE run_callbacks(_, _)
run_callbacks(W, out) ==
  IF out = <<>> THEN W ELSE run_callbacks(WriteCallback(W, Head(out)), Tail(out))

(* ------------------------------- state --------------------------------- *)

VARIABLES
  unit_events,        \* EventTracker::_unit_events, front first
  include_events,     \* EventTracker::_include_events
  parse_events,       \* EventTracker::_parse_events: uid -> stack
  genericize_events,  \* EventTracker::_genericize_events: uid -> stack
  pass_events,        \* EventTracker::_pass_events: name -> stack
  calls,              \* every on_match / on_mismatch call made so far
  doc,                \* what has been printed to the file
  slice_count,        \* TraceWriter::_slice_count
  decl_name_cache,    \* TraceWriter::_decl_name_cache
  epoch,              \* TraceWriter::_epoch
  lookups,            \* the declarations handed to lang_hooks.decl_printable_name
  file,               \* the FILE of the guard: "open" or "closed"
  pc,                 \* position in finish_callback
  stage,              \* which of the four replay loops is running (1..4)
  nsub,               \* number of records submitted so far
  submitted,          \* the records of trace_unit, trace_include, trace_parse and
                      \* trace_pass replayed so far, in the order of replay
  trace_unit,         \* the forward_list trace_unit of plugin.cpp, front first
  trace_include,      \* trace_include
  trace_parse,        \* trace_parse
  trace_pass,         \* trace_pass
  display_name,       \* a name returned by lang_hooks.decl_printable_name
  escaped_name        \* what get_decl_name makes of display_name

vars == <<unit_events, include_events, parse_events, genericize_events, pass_events,
          calls, doc, slice_count, decl_name_cache, epoch, lookups, file, pc, stage,
          nsub, submitted, trace_unit, trace_include, trace_parse, trace_pass,
          display_name, escaped_name>>

tracker_vars == <<unit_events, include_events, parse_events, genericize_events, pass_events>>

writer_vars == <<doc, slice_count, decl_name_cache, epoch, lookups>>

buffer_vars == <<trace_unit, trace_include, trace_parse, trace_pass>>

escape_vars == <<display_name, escaped_name>>

\* the tracker's five collections as one value
Tracker == [unit |-> unit_events, include |-> include_events, parse |-> parse_events,
            genericize |-> genericize_events, pass |-> pass_events]

\* the writer's fields as one value
Writer == [doc |-> doc, slice_count |-> slice_count,
           decl_name_cache |-> decl_name_cache, epoch |-> epoch, lookups |-> lookups]

\* the tracker and the writer after a tracker operation that left the
\* tracker as r.T and made the calls r.out
Effect(r) ==
  LET W == run_callbacks(Writer, r.out)
  IN  /\ unit_events' = r.T.unit
      /\ include_events' = r.T.include
      /\ parse_events' = r.T.parse
      /\ genericize_events' = r.T.genericize
      /\ pass_events' = r.T.pass
      /\ calls' = calls \o r.out
      /\ doc' = W.doc
      /\ slice_count' = W.slice_count
      /\ decl_name_cache' = W.decl_name_cache
      /\ epoch' = W.epoch
      /\ lookups' = W.lookups

\* finish_callback after the file is opened and `TraceWriter writer`,
\* `WriteCallback cb` and `EventTracker tracker` are constructed; the four
\* loops draw the records of the buffers, which are not kept in trace_unit,
\* trace_include, trace_parse and trace_pass
Init ==
  /\ unit_events = <<>>
  /\ include_events = <<>>
  /\ parse_events = <<>>
  /\ genericize_events = <<>>
  /\ pass_events = <<>>
  /\ calls = <<>>
  /\ doc = <<OpenBracket>>
  /\ slice_count = 0
  /\ decl_name_cache = <<>>
  /\ epoch = 0
  /\ lookups = <<>>
  /\ file = "open"
  /\ pc = "replay"
  /\ stage = 1
  /\ nsub = 0
  /\ submitted = <<>>
  /\ trace_unit = <<>>
  /\ trace_include = <<>>
  /\ trace_parse = <<>>
  /\ trace_pass = <<>>
  /\ display_name = ""
  /\ escaped_name = ""

\* one iteration of loop s of finish_callback: tracker.push_event(event)
Replay(s, record, r) ==
  /\ Effect(r)
  /\ submitted' = Append(submitted, record)
  /\ stage' = s
  /\ nsub' = nsub + 1
  /\ UNCHANGED <<file, pc, buffer_vars, escape_vars>>

\* for (auto &event : trace_unit) tracker.push_event(event)
PushUnit ==
  /\ pc = "replay" /\ stage <= 1 /\ nsub < MaxEvents
  /\ \E kind \in UnitEventKind :
       LET record == EventRecord("unit", kind, "", "", NULL_TREE, 0, now(nsub + 1), nsub + 1)
       IN  Replay(1, record, push_event_unit(Tracker, record))

\* for (auto &event : trace_include) tracker.push_event(event)
PushInclude ==
  /\ pc = "replay" /\ stage <= 2 /\ nsub < MaxEvents
  /\ \E kind \in IncludeEventKind :
       \E filename \in (IF kind = "Enter" THEN FileNames ELSE {""}) :
         LET record == EventRecord("include", kind, filename, "", NULL_TREE, 0,
                                   now(nsub + 1), nsub + 1)
         IN  Replay(2, record, push_event_include(Tracker, record))

\* for (auto &event : trace_parse) tracker.push_event(event)
PushParse ==
  /\ pc = "replay" /\ stage <= 3 /\ nsub < MaxEvents
  /\ \E kind \in ParseEventKind, decl \in FnDecls :
       LET record == EventRecord("parse", kind, "", "", decl, DECL_PT_UID(decl),
                                 now(nsub + 1), nsub + 1)
       IN  Replay(3, record, push_event_parse(Tracker, record))

\* for (auto &event : trace_pass) tracker.push_event(event)
PushPass ==
  /\ pc = "replay" /\ stage <= 4 /\ nsub < MaxEvents
  /\ \E kind \in PassEventKind, p \in PassTargets :
       LET record == EventRecord("pass", kind, "", p.name, p.decl,
                                 IF p.decl = NULL_TREE THEN NoUid ELSE DECL_PT_UID(p.decl),
                                 now(nsub + 1), nsub + 1)
       IN  Replay(4, record, push_event_pass(Tracker, record))

\* tracker.finish()
Finish ==
  /\ pc = "replay"
  /\ \E po \in IterationOrders(DOMAIN parse_events),
        go \in IterationOrders(DOMAIN genericize_events),
        so \in IterationOrders(DOMAIN pass_events) :
       Effect(finish(Tracker, po, go, so))
  /\ pc' = "finished"
  /\ UNCHANGED <<file, stage, nsub, submitted, buffer_vars, escape_vars>>

\* writer.write_slice("plugin_dump", dump_start, dump_end): dump_start is
\* read on entry to finish_callback, after every event, dump_end is read now
WriteDump ==
  /\ pc = "finished"
  /\ LET dump_start == now(nsub + 1)
         dump_end == now(nsub + 2)
         W == write_slice_custom(Writer, "plugin_dump", dump_start, dump_end)
     IN  /\ doc' = W.doc
         /\ slice_count' = W.slice_count
         /\ decl_name_cache' = W.decl_name_cache
         /\ epoch' = W.epoch
         /\ lookups' = W.lookups
  /\ pc' = "dumped"
  /\ UNCHANGED <<tracker_vars, calls, file, stage, nsub, submitted, buffer_vars, escape_vars>>

\* ~EventTracker at the end of finish_callback: finish() once more
DestroyTracker ==
  /\ pc = "dumped"
  /\ \E po \in IterationOrders(DOMAIN parse_events),
        go \in IterationOrders(DOMAIN genericize_events),
        so \in IterationOrders(DOMAIN pass_events) :
       Effect(finish(Tracker, po, go, so))
  /\ pc' = "tracker_destroyed"
  /\ UNCHANGED <<file, stage, nsub, submitted, buffer_vars, escape_vars>>

\* ~TraceWriter: the closing bracket
DestroyWriter ==
  /\ pc = "tracker_destroyed"
  /\ doc' = doc \o <<CloseBracket>>
  /\ pc' = "writer_destroyed"
  /\ UNCHANGED <<tracker_vars, calls, slice_count, decl_name_cache, epoch, lookups,
                 file, stage, nsub, submitted, buffer_vars, escape_vars>>

\* ~File: fclose
CloseFile ==
  /\ pc = "writer_destroyed"
  /\ file' = "closed"
  /\ pc' = "closed"
  /\ UNCHANGED <<tracker_vars, calls, writer_vars, stage, nsub, submitted,
                 buffer_vars, escape_vars>>

Next ==
  \/ PushUnit
  \/ PushInclude
  \/ PushParse
  \/ PushPass
  \/ Finish
  \/ WriteDump
  \/ DestroyTracker
  \/ DestroyWriter
  \/ CloseFile

Spec == Init /\ [][Next]_vars

(* ------------------------- history of a run ---------------------------- *)

\* the calls made so far, by kind
Matches == {calls[i] : i \in {j \in 1..Len(calls) : calls[j].op = "on_match"}}

Mismatches == {calls[i] : i \in {j \in 1..Len(calls) : calls[j].op = "on_mismatch"}}

\* the records submitted so far
Submitted == {submitted[i] : i \in 1..Len(submitted)}

\* the categories whose terminating event goes through DefaultMatchCallback
\* on one stack
StackCats == {"unit", "include", "pass"}

\* a and b belong to the same stack of the tracker
SameStack(a, b) ==
  /\ a.cat = b.cat
  /\ a.cat = "pass" => a.name = b.name
  /\ a.cat = "parse" => a.uid = b.uid

IsBegin(r) == r.kind \in {"Start", "Enter", "PreGenericize"}

IsTerminating(r) == r.kind \in {"End", "Leave", "Finish"}

\* the records of the stack of r submitted so far, in order
StackHistory(r) ==
  LET Same(x) == SameStack(x, r) IN SelectSeq(submitted, Same)

\* b was matched with a terminating event submitted before e
MatchedBefore(b, e) == \E c \in Matches : c.start = b /\ c.end.seq < e.seq

\* all the entries of a collection
Range(stack) == {stack[i] : i \in 1..Len(stack)}

StackOf(stack_dict, key) == IF key \in DOMAIN stack_dict THEN stack_dict[key] ELSE <<>>

Pending(stack_dict) == UNION {Range(stack_dict[k]) : k \in DOMAIN stack_dict}

(* -------------------------------- C1 ----------------------------------- *)

\* C1: every terminating event of Unit, Include and Pass is matched with the
\* most recently submitted begin of its stack that is still unmatched: a
\* match pairs the end with an earlier begin of the same stack such that
\* every begin of that stack submitted in between was matched before, and an
\* end is reported as a mismatch only when every earlier begin of its stack
\* was matched before.
C1_LifoMatching ==
  /\ \A c \in Matches : c.end.cat \in StackCats =>
       /\ SameStack(c.start, c.end)
       /\ IsBegin(c.start) /\ IsTerminating(c.end)
       /\ c.start.seq < c.end.seq
       /\ \A b \in Submitted :
            (SameStack(b, c.end) /\ IsBegin(b) /\ c.start.seq < b.seq /\ b.seq < c.end.seq)
              => MatchedBefore(b, c.end)
  /\ \A c \in Mismatches : (c.end.cat \in StackCats /\ IsTerminating(c.end)) =>
       \A b \in Submitted :
         (SameStack(b, c.end) /\ IsBegin(b) /\ b.seq < c.end.seq) => MatchedBefore(b, c.end)

\* Start, Start, End, End for one pass name gave two intervals: 2nd Start
\* with 1st End, then 1st Start with 2nd End
C1_Witness ==
  /\ Len(submitted) = 4
  /\ \A i \in 1..4 : submitted[i].cat = "pass" /\ submitted[i].name = "p"
  /\ submitted[1].kind = "Start" /\ submitted[2].kind = "Start"
  /\ submitted[3].kind = "End" /\ submitted[4].kind = "End"
  /\ calls = <<on_match(submitted[2], submitted[3]), on_match(submitted[1], submitted[4])>>

(* -------------------------------- C2 ----------------------------------- *)

\* begins and ends of one stack are properly nested or sequential
RECURSIVE Balanced(_, _)
Balanced(h, depth) ==
  IF h = <<>> THEN depth = 0
  ELSE IF IsBegin(Head(h)) THEN Balanced(Tail(h), depth + 1)
  ELSE depth > 0 /\ Balanced(Tail(h), depth - 1)

NonDecreasing(h) == \A i, j \in 1..Len(h) : i <= j => h[i].timestamp <= h[j].timestamp

\* C2: when the records submitted for one stack of Unit, Include or Pass form
\* a well-formed sequence of begin/end pairs with non-decreasing timestamps,
\* every begin and every end of it is in exactly one on_match call, there is
\* one call per pair, each with start.timestamp <= end.timestamp, and no
\* on_mismatch call for that stack, before and after finish().
C2_WellFormedPairs ==
  \A r \in Submitted :
    LET h == StackHistory(r)
        M == {c \in Matches : SameStack(c.end, r)}
    IN  (r.cat \in StackCats /\ Balanced(h, 0) /\ NonDecreasing(h)) =>
          /\ \A c \in Mismatches : ~SameStack(c.end, r)
          /\ Cardinality(M) * 2 = Len(h)
          /\ \A i \in 1..Len(h) :
               IF IsBegin(h[i])
                 THEN Cardinality({c \in M : c.start = h[i]}) = 1
                        /\ \A c \in M : c.end # h[i]
                 ELSE Cardinality({c \in M : c.end = h[i]}) = 1
                        /\ \A c \in M : c.start # h[i]
          /\ \A c \in M : c.start.timestamp <= c.end.timestamp
          /\ Cardinality({i \in 1..Len(calls) : calls[i] \in M}) = Cardinality(M)

\* finish() has run after two nested Include pairs, one of them with a start
\* strictly before its end
C2_Witness ==
  /\ pc = "finished"
  /\ \E r \in Submitted :
       /\ r.cat = "include"
       /\ Len(StackHistory(r)) = 4
       /\ Balanced(StackHistory(r), 0)
       /\ StackHistory(r)[2].kind = "Enter"
  /\ \E c \in Matches : c.start.timestamp < c.end.timestamp

(* -------------------------------- C3 ----------------------------------- *)

\* the Parse records of one key are complete lifecycles: Start,
\* PreGenericize, Finish or Start, Finish, one after the other
RECURSIVE ParseLifecycles(_)
ParseLifecycles(h) ==
  IF h = <<>> THEN TRUE
  ELSE IF Len(h) >= 3 /\ h[1].kind = "Start" /\ h[2].kind = "PreGenericize"
            /\ h[3].kind = "Finish"
    THEN ParseLifecycles(SubSeq(h, 4, Len(h)))
  ELSE IF Len(h) >= 2 /\ h[1].kind = "Start" /\ h[2].kind = "Finish"
    THEN ParseLifecycles(SubSeq(h, 3, Len(h)))
  ELSE FALSE

\* the calls the lifecycles of one key are to make
RECURSIVE ParseIntervals(_)
ParseIntervals(h) ==
  IF h = <<>> THEN <<>>
  ELSE IF h[2].kind = "PreGenericize"
    THEN <<on_match(h[1], h[2]), on_match(h[2], h[3])>> \o ParseIntervals(SubSeq(h, 4, Len(h)))
  ELSE <<on_match(h[1], h[2])>> \o ParseIntervals(SubSeq(h, 3, Len(h)))

\* the number of entries of the document with this name and function
CountEntries(name, function) ==
  Cardinality({i \in 1..Len(doc) :
                 /\ doc[i].t = "slice"
                 /\ doc[i].name = name
                 /\ doc[i].args = <<[key |-> "function", value |-> function]>>})

\* the number of calls of `cs` whose start is of this kind
CountStartKind(cs, kind) == Cardinality({i \in 1..Len(cs) : cs[i].start.kind = kind})

\* C3: when the Parse records of key k are complete lifecycles, the calls made
\* for k are, per lifecycle, on_match(Start, PreGenericize) then
\* on_match(PreGenericize, Finish), or on_match(Start, Finish) alone; the
\* document has one "parse" entry per lifecycle and one "genericize" entry per
\* lifecycle with a PreGenericize, and neither a mismatch call nor a marker
\* for k, before and after finish().
C3_ParseFallback ==
  \A r \in Submitted :
    LET h == StackHistory(r)
        OfKey(c) == c.end.cat = "parse" /\ c.end.uid = r.uid
        function == escape_quotes(decl_printable_name(r.decl))
    IN  (r.cat = "parse" /\ ParseLifecycles(h)) =>
          /\ SelectSeq(calls, OfKey) = ParseIntervals(h)
          /\ CountEntries("parse", function) = CountStartKind(ParseIntervals(h), "Start")
          /\ CountEntries("genericize", function)
               = CountStartKind(ParseIntervals(h), "PreGenericize")
          /\ CountEntries("genericize (start)", function) = 0
          /\ CountEntries("parse (finish)", function) = 0

\* finish() has run after Start, PreGenericize, Finish for one key, which
\* gave a "parse" and a "genericize" entry
C3_Witness ==
  /\ pc = "finished"
  /\ \E a \in Submitted :
       /\ a.cat = "parse"
       /\ Len(StackHistory(a)) = 3 /\ ParseLifecycles(StackHistory(a))
       /\ CountEntries("parse", escape_quotes(decl_printable_name(a.decl))) = 1
       /\ CountEntries("genericize", escape_quotes(decl_printable_name(a.decl))) = 1
       /\ \A c \in Mismatches : c.end.uid # a.uid

(* --------------------------- steps of a run ---------------------------- *)

\* this step is a push_event
IsPush == Len(submitted') = Len(submitted) + 1

\* the record this step submits
Pushed == submitted'[Len(submitted')]

\* this step is a finish(): the explicit one or the destructor's
IsFinish == (pc = "replay" /\ pc' = "finished") \/ (pc = "dumped" /\ pc' = "tracker_destroyed")

\* the calls this step makes
NewCalls == SubSeq(calls', Len(calls) + 1, Len(calls'))

\* every pending entry of the tracker
AllPending ==
  Range(unit_events) \cup Range(include_events) \cup Pending(parse_events)
    \cup Pending(genericize_events) \cup Pending(pass_events)

(* -------------------------------- C4 ----------------------------------- *)

\* this step submits a PreGenericize whose key has no pending Start
PreGenericizeWithoutStart ==
  /\ IsPush
  /\ Pushed.cat = "parse" /\ Pushed.kind = "PreGenericize"
  /\ StackOf(parse_events, Pushed.uid) = <<>>

\* C4 as stated: a PreGenericize(k) submitted while the parse-stack has no
\* pending Start for k is reported through on_mismatch by that submission, and
\* is pushed onto the genericize-stack for k.
C4_MismatchAtSubmission ==
  [][PreGenericizeWithoutStart =>
       /\ NewCalls = <<on_mismatch(Pushed)>>
       /\ StackOf(genericize_events', Pushed.uid)
            = <<Pushed>> \o StackOf(genericize_events, Pushed.uid)]_vars

\* C4 as amended: a PreGenericize(k) submitted while the parse-stack has no
\* pending Start for k makes no callback call and writes nothing at that
\* submission; it is only pushed onto the genericize-stack for k, and the
\* parse map is left as it was.
C4_SilentAtSubmission ==
  [][PreGenericizeWithoutStart =>
       /\ NewCalls = <<>>
       /\ calls' = calls
       /\ doc' = doc
       /\ parse_events' = parse_events
       /\ StackOf(genericize_events', Pushed.uid)
            = <<Pushed>> \o StackOf(genericize_events, Pushed.uid)]_vars

\* the last record submitted is a PreGenericize that found no Start: it sits
\* on the genericize-stack and is in no call
C4_Witness ==
  /\ pc = "replay"
  /\ submitted # <<>>
  /\ LET r == submitted[Len(submitted)]
     IN  /\ r.cat = "parse" /\ r.kind = "PreGenericize"
         /\ StackOf(genericize_events, r.uid) # <<>>
         /\ Head(StackOf(genericize_events, r.uid)) = r
         /\ \A c \in Matches \cup Mismatches : c.end # r /\ c.start # r

(* -------------------------------- C5 ----------------------------------- *)

\* C5: a Finish(k) pops the parse-stack of k when that has a pending entry and
\* leaves the genericize-stack of k alone; otherwise it pops the
\* genericize-stack of k when that has a pending entry; otherwise it is
\* reported as a mismatch and pops nothing. The stacks of every other key are
\* left as they were.
C5_FinishResolvesOnce ==
  [][(IsPush /\ Pushed.cat = "parse" /\ Pushed.kind = "Finish") =>
       LET k == Pushed.uid
           P == StackOf(parse_events, k)
           G == StackOf(genericize_events, k)
           others == (DOMAIN parse_events \cup DOMAIN genericize_events
                        \cup DOMAIN parse_events' \cup DOMAIN genericize_events') \ {k}
       IN  /\ P # <<>> =>
                /\ NewCalls = <<on_match(Head(P), Pushed)>>
                /\ StackOf(parse_events', k) = Tail(P)
                /\ StackOf(genericize_events', k) = G
           /\ (P = <<>> /\ G # <<>>) =>
                /\ NewCalls = <<on_match(Head(G), Pushed)>>
                /\ StackOf(parse_events', k) = <<>>
                /\ StackOf(genericize_events', k) = Tail(G)
           /\ (P = <<>> /\ G = <<>>) =>
                /\ NewCalls = <<on_mismatch(Pushed)>>
                /\ StackOf(parse_events', k) = <<>>
                /\ StackOf(genericize_events', k) = <<>>
           /\ \A k2 \in others :
                /\ StackOf(parse_events', k2) = StackOf(parse_events, k2)
                /\ StackOf(genericize_events', k2) = StackOf(genericize_events, k2)]_vars

\* the last record submitted is a Finish that was matched with a Start while
\* the genericize-stack of its key and the stacks of another key hold entries
C5_Witness ==
  /\ pc = "replay"
  /\ calls # <<>>
  /\ LET c == calls[Len(calls)]
     IN  /\ c.op = "on_match"
         /\ c.end = submitted[Len(submitted)]
         /\ c.end.cat = "parse" /\ c.end.kind = "Finish"
         /\ c.start.kind = "Start"
         /\ StackOf(genericize_events, c.end.uid) # <<>>
         /\ \E k2 \in DOMAIN parse_events : k2 # c.end.uid

(* -------------------------------- C6 ----------------------------------- *)

\* no begin is pending for the key of r
NoPendingBegin(r) ==
  CASE r.cat = "unit"    -> unit_events = <<>>
    [] r.cat = "include" -> include_events = <<>>
    [] r.cat = "parse"   -> StackOf(parse_events, r.uid) = <<>>
                              /\ StackOf(genericize_events, r.uid) = <<>>
    [] r.cat = "pass"    -> StackOf(pass_events, r.name) = <<>>

\* C6: a terminating event (Unit End, Include Leave, Pass End, Parse Finish)
\* submitted while its own key has no pending begin is reported through
\* on_mismatch, and the submission leaves the collections of the other
\* categories and the stacks of the other keys as they were.
C6_MismatchFrame ==
  [][(IsPush /\ IsTerminating(Pushed) /\ NoPendingBegin(Pushed)) =>
       /\ NewCalls = <<on_mismatch(Pushed)>>
       /\ Pushed.cat # "unit" => unit_events' = unit_events
       /\ Pushed.cat # "include" => include_events' = include_events
       /\ Pushed.cat # "parse" =>
            parse_events' = parse_events /\ genericize_events' = genericize_events
       /\ Pushed.cat # "pass" => pass_events' = pass_events
       /\ Pushed.cat = "parse" =>
            \A k2 \in (DOMAIN parse_events \cup DOMAIN genericize_events
                         \cup DOMAIN parse_events' \cup DOMAIN genericize_events')
                        \ {Pushed.uid} :
              /\ StackOf(parse_events', k2) = StackOf(parse_events, k2)
              /\ StackOf(genericize_events', k2) = StackOf(genericize_events, k2)
       /\ Pushed.cat = "pass" =>
            \A n2 \in (DOMAIN pass_events \cup DOMAIN pass_events') \ {Pushed.name} :
              StackOf(pass_events', n2) = StackOf(pass_events, n2)]_vars

\* the last record submitted is a Pass End that was reported as a mismatch
\* while another pass name, a Parse key and the Unit stack hold pending begins
C6_Witness ==
  /\ pc = "replay"
  /\ calls # <<>>
  /\ LET c == calls[Len(calls)]
     IN  /\ c.op = "on_mismatch"
         /\ c.end = submitted[Len(submitted)]
         /\ c.end.cat = "pass" /\ c.end.kind = "End"
         /\ \E n2 \in DOMAIN pass_events : n2 # c.end.name
         /\ parse_events # <<>>
         /\ unit_events # <<>>

(* -------------------------------- C7 ----------------------------------- *)

\* C7: finish() calls on_mismatch once for each pending entry and makes no
\* other call, and leaves the five collections empty.
C7_FlushReportsPending ==
  [][IsFinish =>
       /\ SubSeq(calls', 1, Len(calls)) = calls
       /\ \A i \in 1..Len(NewCalls) : NewCalls[i].op = "on_mismatch"
       /\ {NewCalls[i].end : i \in 1..Len(NewCalls)} = AllPending
       /\ Len(NewCalls) = Cardinality(AllPending)
       /\ unit_events' = <<>>
       /\ include_events' = <<>>
       /\ parse_events' = <<>>
       /\ genericize_events' = <<>>
       /\ pass_events' = <<>>]_vars

\* finish() has reported a pending PreGenericize, a pending Parse Start and a
\* pending Pass Start
C7_Witness ==
  /\ pc = "finished"
  /\ \E a, b, c \in Mismatches :
       /\ a.end.cat = "parse" /\ a.end.kind = "PreGenericize"
       /\ b.end.cat = "parse" /\ b.end.kind = "Start"
       /\ c.end.cat = "pass" /\ c.end.kind = "Start"
  /\ AllPending = {}

(* -------------------------------- C8 ----------------------------------- *)

\* C8: the finish() run by the tracker's destructor, after the explicit
\* tracker.finish() of finish_callback, makes no callback call and writes
\* nothing to the document.
C8_FinishIdempotent ==
  [][(pc = "dumped" /\ pc' = "tracker_destroyed") =>
       /\ calls' = calls
       /\ doc' = doc
       /\ slice_count' = slice_count
       /\ AllPending = {}]_vars

\* the destructor has run after a finish() that reported pending begins
C8_Witness ==
  /\ pc = "tracker_destroyed"
  /\ \E a, b \in Mismatches : a # b /\ IsBegin(a.end) /\ IsBegin(b.end)

(* -------------------------------- C9 ----------------------------------- *)

\* C9: no key of the parse, genericize and pass maps is mapped to an empty
\* stack, after every push_event and after finish().
C9_KeyPruning ==
  /\ \A k \in DOMAIN parse_events : parse_events[k] # <<>>
  /\ \A k \in DOMAIN genericize_events : genericize_events[k] # <<>>
  /\ \A k \in DOMAIN pass_events : pass_events[k] # <<>>

\* a pass name whose stack was drained by a match is used again: its stack
\* holds the new Start alone
C9_Witness ==
  /\ pc = "replay"
  /\ submitted # <<>>
  /\ LET r == submitted[Len(submitted)]
     IN  /\ r.cat = "pass" /\ r.kind = "Start"
         /\ pass_events = [n \in {r.name} |-> <<r>>]
         /\ \E c \in Matches : c.end.cat = "pass" /\ c.end.name = r.name

(* -------------------------------- C10 ---------------------------------- *)

\* an entry written for a single record: its name ends with the label suffix
IsMarker(e) ==
  /\ e.t = "slice"
  /\ SubSeq(e.name, Len(e.name), Len(e.name)) = ")"

MarkerCount == Cardinality({i \in 1..Len(doc) : IsMarker(doc[i])})

MismatchCount == Cardinality({i \in 1..Len(calls) : calls[i].op = "on_mismatch"})

\* the mismatch calls whose record is a Parse Start
ParseStartMismatchCount ==
  Cardinality({i \in 1..Len(calls) :
                 /\ calls[i].op = "on_mismatch"
                 /\ calls[i].end.cat = "parse" /\ calls[i].end.kind = "Start"})

\* C10 as stated: every on_mismatch call, a pending Parse Start included,
\* has produced exactly one marker entry of the document.
C10_MarkerPerMismatch == MarkerCount = MismatchCount

\* C10 as amended: every on_mismatch call has produced exactly one marker
\* entry of the document, except the calls for a Parse Start, which have
\* produced none.
C10_MarkerPerMismatchButParseStart ==
  MarkerCount = MismatchCount - ParseStartMismatchCount

\* finish() has reported a pending Parse Start and mismatches of other kinds
C10_Witness ==
  /\ pc = "finished"
  /\ ParseStartMismatchCount > 0
  /\ MarkerCount > 1

(* -------------------------------- C11 ---------------------------------- *)

\* the stack a matched begin was popped from: for Parse the key selects two
\* stacks, _parse_events for a Start and _genericize_events for a
\* PreGenericize
SamePoppedStack(c1, c2) ==
  /\ SameStack(c1.start, c2.start)
  /\ c1.start.kind = c2.start.kind

\* the interval of c1 lies inside the interval of c2
Inside(c1, c2) == c2.start.seq < c1.start.seq /\ c1.end.seq < c2.end.seq

\* the intervals of c1 and c2 do not intersect
Disjoint(c1, c2) == c1.end.seq < c2.start.seq \/ c2.end.seq < c1.start.seq

\* the position in calls of a call made once
CallIndex(c) == CHOOSE i \in 1..Len(calls) : calls[i] = c

IsIncludeInterval(c) == c.op = "on_match" /\ c.end.cat = "include"

\* the entries of the document written for Include intervals, in order
IncludeEntries ==
  LET IsInc(e) == e.t = "slice" /\ e.name = "include" /\ e.args # <<>> IN SelectSeq(doc, IsInc)

\* C11: two intervals matched from one stack are disjoint or one contains
\* the other, in submission order and in time, never partially overlapping;
\* the contained interval is reported (and so written) before the containing
\* one; and the entries written for Include intervals are, in the order of
\* the reports, the file of the Enter with the start and the length of the
\* interval.
C11_ProperNesting ==
  /\ \A c1, c2 \in Matches : (c1 # c2 /\ SamePoppedStack(c1, c2)) =>
       /\ Disjoint(c1, c2) \/ Inside(c1, c2) \/ Inside(c2, c1)
       /\ ~ (/\ c1.start.timestamp < c2.start.timestamp
             /\ c2.start.timestamp < c1.end.timestamp
             /\ c1.end.timestamp < c2.end.timestamp)
       /\ Inside(c1, c2) =>
            /\ CallIndex(c1) < CallIndex(c2)
            /\ c2.start.timestamp <= c1.start.timestamp
            /\ c1.end.timestamp <= c2.end.timestamp
  /\ LET inc == SelectSeq(calls, IsIncludeInterval)
         entries == IncludeEntries
     IN  /\ Len(entries) = Len(inc)
         /\ \A i \in 1..Len(inc) :
              /\ entries[i].args = <<[key |-> "file", value |-> inc[i].start.filename]>>
              /\ entries[i].ts = inc[i].start.timestamp - epoch
              /\ entries[i].dur = inc[i].end.timestamp - inc[i].start.timestamp

\* Enter("a.h"), Enter("b.h"), Leave, Leave gave two entries: "b.h" first,
\* then "a.h" starting no later and ending no earlier
C11_Witness ==
  /\ Len(submitted) = 4
  /\ \A i \in 1..4 : submitted[i].cat = "include"
  /\ submitted[1].kind = "Enter" /\ submitted[1].filename = "a.h"
  /\ submitted[2].kind = "Enter" /\ submitted[2].filename = "b.h"
  /\ submitted[3].kind = "Leave" /\ submitted[4].kind = "Leave"
  /\ Len(IncludeEntries) = 2
  /\ IncludeEntries[1].args[1].value = "b.h"
  /\ IncludeEntries[2].args[1].value = "a.h"
  /\ IncludeEntries[2].ts <= IncludeEntries[1].ts
  /\ IncludeEntries[2].ts + IncludeEntries[2].dur >= IncludeEntries[1].ts + IncludeEntries[1].dur

(* -------------------------------- C12 ---------------------------------- *)

IsEntry(e) == e.t = "slice"

\* the entries of the document
EntryCount == Cardinality({i \in 1..Len(doc) : IsEntry(doc[i])})

\* what lies between the delimiters
DocBody ==
  IF Len(doc) > 1 /\ doc[Len(doc)] = CloseBracket
    THEN SubSeq(doc, 2, Len(doc) - 1)
    ELSE SubSeq(doc, 2, Len(doc))

\* entries separated by single commas, no comma first or last
CommaSeparated(body) ==
  /\ Len(body) = 0 \/ Len(body) % 2 = 1
  /\ \A i \in 1..Len(body) : IF i % 2 = 1 THEN IsEntry(body[i]) ELSE body[i] = Comma

\* C12: whatever was written, the document starts with its one opening
\* bracket; the closing bracket is written once, last, by the destructor of
\* the writer; between the two stand the entries, separated by single commas
\* with no comma before the first or after the last; and there is one entry
\* per report of the tracker that is not a Parse Start, plus "plugin_dump",
\* so that a skipped marker adds neither an entry nor a comma.
C12_DocumentShape ==
  /\ Len(doc) >= 1 /\ doc[1] = OpenBracket
  /\ \A i \in 2..Len(doc) : doc[i] # OpenBracket
  /\ \A i \in 1..Len(doc) : doc[i] = CloseBracket => i = Len(doc)
  /\ pc \in {"writer_destroyed", "closed"} <=> doc[Len(doc)] = CloseBracket
  /\ CommaSeparated(DocBody)
  /\ EntryCount = Len(calls) - ParseStartMismatchCount
                    + (IF pc \in {"replay", "finished"} THEN 0 ELSE 1)

\* a closed document of at least three entries, written in a run where a
\* pending Parse Start was skipped
C12_Witness ==
  /\ pc = "closed"
  /\ ParseStartMismatchCount > 0
  /\ EntryCount >= 3
  /\ doc[Len(doc)] = CloseBracket

(* -------------------------------- C13 ---------------------------------- *)

\* the positions of the entries named "plugin_dump"
DumpPositions == {i \in 1..Len(doc) : IsEntry(doc[i]) /\ doc[i].name = "plugin_dump"}

\* C13: in finish_callback every interval and marker entry is written before
\* "plugin_dump": once "plugin_dump" is written it stays the last entry, the
\* destructors of the tracker add nothing after it, the closing bracket is
\* written right after it, and the sink is closed only when the closing
\* bracket is written.
C13_ShutdownOrder ==
  /\ pc \in {"replay", "finished"} => DumpPositions = {}
  /\ pc \in {"dumped", "tracker_destroyed"} =>
       DumpPositions = {Len(doc)}
  /\ pc \in {"writer_destroyed", "closed"} =>
       /\ DumpPositions = {Len(doc) - 1}
       /\ doc[Len(doc)] = CloseBracket
  /\ file = "closed" => (pc = "closed" /\ doc[Len(doc)] = CloseBracket)
  /\ pc \in {"replay", "finished", "dumped", "tracker_destroyed", "writer_destroyed"} =>
       file = "open"

\* the sink is closed after a run that wrote intervals and markers before
\* "plugin_dump"
C13_Witness ==
  /\ pc = "closed" /\ file = "closed"
  /\ Matches # {} /\ MarkerCount > 0
  /\ DumpPositions = {Len(doc) - 1}

(* -------------------------------- C15 ---------------------------------- *)

\* the reports of the tracker that are written to the document, in order
IsWritten(c) == ~ (c.op = "on_mismatch" /\ c.end.cat = "parse" /\ c.end.kind = "Start")

WrittenCalls == SelectSeq(calls, IsWritten)

\* the entries written for the reports of the tracker, in order
TrackerEntries ==
  LET IsTracked(e) == IsEntry(e) /\ e.name # "plugin_dump" IN SelectSeq(doc, IsTracked)

\* C15: the entry of a matched interval whose end is later than its start is
\* a duration entry, ph "X" with dur = end - start; the entry of a matched
\* interval whose end equals its start and the marker of a single unmatched
\* event are instantaneous, ph "i" with no dur; and there is no other entry
\* for a report of the tracker.
C15_PhaseDiscriminator ==
  /\ LET written == WrittenCalls
         entries == TrackerEntries
     IN  /\ Len(entries) = Len(written)
         /\ \A i \in 1..Len(written) :
              LET c == written[i]
                  e == entries[i]
              IN  IF c.op = "on_match" /\ c.end.timestamp > c.start.timestamp
                    THEN /\ e.ph = "X"
                         /\ e.dur = c.end.timestamp - c.start.timestamp
                         /\ e.dur_text # ""
                         /\ ~ IsMarker(e)
                    ELSE /\ e.ph = "i"
                         /\ e.dur_text = ""
                         /\ c.op = "on_mismatch" <=> IsMarker(e)
  /\ \A i \in 1..Len(doc) : IsEntry(doc[i]) =>
       /\ doc[i].ph \in {"X", "i"}
       /\ doc[i].ph = "X" <=> doc[i].dur_text # ""

\* the document holds a duration entry, an instantaneous entry of an interval
\* whose end equals its start, and a marker
C15_Witness ==
  /\ \E i \in 1..Len(WrittenCalls) :
       /\ WrittenCalls[i].op = "on_match"
       /\ WrittenCalls[i].end.timestamp > WrittenCalls[i].start.timestamp
       /\ TrackerEntries[i].ph = "X"
  /\ \E i \in 1..Len(WrittenCalls) :
       /\ WrittenCalls[i].op = "on_match"
       /\ WrittenCalls[i].end.timestamp = WrittenCalls[i].start.timestamp
       /\ TrackerEntries[i].ph = "i"
  /\ \E i \in 1..Len(WrittenCalls) :
       /\ WrittenCalls[i].op = "on_mismatch"
       /\ TrackerEntries[i].ph = "i"

(* -------------------------------- C19 ---------------------------------- *)

\* the positions of the entries that carry a "function" argument
FunctionEntries ==
  {j \in 1..Len(doc) : /\ IsEntry(doc[j]) /\ doc[j].args # <<>>
                       /\ doc[j].args[1].key = "function"}

\* the values of the "function" arguments of the document
FunctionValues == {doc[j].args[1].value : j \in FunctionEntries}

\* C19: over the lifetime of the document lang_hooks.decl_printable_name is
\* called at most once per function key, exactly for the keys of the cache;
\* every "function" argument of the document is a name of the cache; and a
\* step never removes a key of the cache nor changes the name stored for it.
C19_NameCache ==
  [][ /\ \A i, j \in 1..Len(lookups') :
           DECL_PT_UID(lookups'[i]) = DECL_PT_UID(lookups'[j]) => i = j
      /\ {DECL_PT_UID(lookups'[i]) : i \in 1..Len(lookups')} = DOMAIN decl_name_cache'
      /\ FunctionValues' \subseteq {decl_name_cache'[k] : k \in DOMAIN decl_name_cache'}
      /\ \A k \in DOMAIN decl_name_cache :
           k \in DOMAIN decl_name_cache' /\ decl_name_cache'[k] = decl_name_cache[k]
    ]_vars

\* three entries name one function, whose name was asked for once
C19_Witness ==
  /\ Cardinality(FunctionEntries) >= 3
  /\ Len(lookups) = 1
  /\ DOMAIN decl_name_cache = {DECL_PT_UID(lookups[1])}

(* -------------------------------- C18 ---------------------------------- *)

\* the longest display name tried
MaxNameLen == 4

\* the characters of the display names tried: a letter, the double quote and
\* the backslash
NameAlphabet == {"a", "\"", "\\"}

RECURSIVE NamesUpTo(_)
NamesUpTo(n) ==
  IF n = 0 THEN {""}
  ELSE LET S == NamesUpTo(n - 1) IN S \cup {s \o c : s \in S, c \in NameAlphabet}

\* what lang_hooks.decl_printable_name may return
DisplayNames == NamesUpTo(MaxNameLen)

\* get_decl_name about to escape a name returned by the language hook
InitEscape ==
  /\ unit_events = <<>>
  /\ include_events = <<>>
  /\ parse_events = <<>>
  /\ genericize_events = <<>>
  /\ pass_events = <<>>
  /\ calls = <<>>
  /\ doc = <<OpenBracket>>
  /\ slice_count = 0
  /\ decl_name_cache = <<>>
  /\ epoch = 0
  /\ lookups = <<>>
  /\ file = "open"
  /\ pc = "name"
  /\ stage = 1
  /\ nsub = 0
  /\ submitted = <<>>
  /\ trace_unit = <<>>
  /\ trace_include = <<>>
  /\ trace_parse = <<>>
  /\ trace_pass = <<>>
  /\ display_name \in DisplayNames
  /\ escaped_name = ""

\* the loop of get_decl_name run on display_name
EscapeName ==
  /\ pc = "name"
  /\ escaped_name' = escape_quotes(display_name)
  /\ pc' = "escaped"
  /\ UNCHANGED <<tracker_vars, calls, writer_vars, file, stage, nsub, submitted,
                 buffer_vars, display_name>>

NextEscape == EscapeName

SpecEscape == InitEscape /\ [][NextEscape]_vars

\* a JSON parser reading the characters between the quotes of a string: \"
\* stands for a quote and \\ for a backslash, a quote that is not escaped
\* ends the string, and a backslash before anything else of NameAlphabet, or
\* before the end, is an error
RECURSIVE json_unescape(_)
json_unescape(text) ==
  IF text = "" THEN [ok |-> TRUE, text |-> ""]
  ELSE IF Head(text) = "\"" THEN [ok |-> FALSE, text |-> ""]
  ELSE IF Head(text) = "\\"
    THEN IF Len(text) >= 2 /\ Head(Tail(text)) \in {"\"", "\\"}
           THEN LET rest == json_unescape(Tail(Tail(text)))
                IN  [ok |-> rest.ok, text |-> Head(Tail(text)) \o rest.text]
           ELSE [ok |-> FALSE, text |-> ""]
  ELSE LET rest == json_unescape(Tail(text))
       IN  [ok |-> rest.ok, text |-> Head(text) \o rest.text]

\* C18: for every display name of quotes, backslashes and letters, what
\* get_decl_name makes of it is read back by a JSON string parser as the
\* display name.
C18_EscapeRoundTrip ==
  pc = "escaped" =>
    LET parsed == json_unescape(escaped_name)
    IN  parsed.ok /\ parsed.text = display_name

(* ------------------ the plugin from the first callback ----------------- *)

\* the most events recorded before finish_callback
MaxRecorded == 3

\* the readings of the steady clock made before the first event
ClockStart == 2

\* EventTimePoint::max(). The largest count of the model's integers stands
\* for the largest count of the clock's 64-bit representation
TIME_MAX == 2147483647

\* ORDINARY_MAP_FILE_NAME(line_map): the paths of the files entered, one of
\* them with a double quote in a directory name
MapFileNames == {"a.h", "d\"e.h"}

NRecorded == Len(trace_unit) + Len(trace_include) + Len(trace_parse) + Len(trace_pass)

\* the plugin is loaded and no callback has run
InitPlugin ==
  /\ unit_events = <<>>
  /\ include_events = <<>>
  /\ parse_events = <<>>
  /\ genericize_events = <<>>
  /\ pass_events = <<>>
  /\ calls = <<>>
  /\ doc = <<>>
  /\ slice_count = 0
  /\ decl_name_cache = <<>>
  /\ epoch = 0
  /\ lookups = <<>>
  /\ file = "unopened"
  /\ pc = "record"
  /\ stage = 1
  /\ nsub = 0
  /\ submitted = <<>>
  /\ trace_unit = <<>>
  /\ trace_include = <<>>
  /\ trace_parse = <<>>
  /\ trace_pass = <<>>
  /\ display_name = ""
  /\ escaped_name = ""

\* what a callback leaves alone besides the other three buffers
record_unchanged == <<tracker_vars, calls, writer_vars, file, pc, stage, nsub, submitted,
                      escape_vars>>

\* start_unit_callback and finish_unit_callback: trace_unit.push_front
unit_callback ==
  /\ pc = "record" /\ NRecorded < MaxRecorded
  /\ \E kind \in UnitEventKind :
       trace_unit' = <<EventRecord("unit", kind, "", "", NULL_TREE, 0,
                                   now(ClockStart + NRecorded + 1), NRecorded + 1)>>
                       \o trace_unit
  /\ UNCHANGED <<trace_include, trace_parse, trace_pass, record_unchanged>>

\* cb_file_change with reason LC_ENTER or LC_LEAVE: trace_include.push_front
cb_file_change ==
  /\ pc = "record" /\ NRecorded < MaxRecorded
  /\ \E kind \in IncludeEventKind :
       \E filename \in (IF kind = "Enter" THEN MapFileNames ELSE {""}) :
         trace_include' = <<EventRecord("include", kind, filename, "", NULL_TREE, 0,
                                        now(ClockStart + NRecorded + 1), NRecorded + 1)>>
                            \o trace_include
  /\ UNCHANGED <<trace_unit, trace_parse, trace_pass, record_unchanged>>

\* start_parse_function_callback, pre_genericize_callback and
\* finish_parse_function_callback: trace_parse.push_front
parse_function_callback ==
  /\ pc = "record" /\ NRecorded < MaxRecorded
  /\ \E kind \in ParseEventKind, decl \in FnDecls :
       trace_parse' = <<EventRecord("parse", kind, "", "", decl, DECL_PT_UID(decl),
                                    now(ClockStart + NRecorded + 1), NRecorded + 1)>>
                        \o trace_parse
  /\ UNCHANGED <<trace_unit, trace_include, trace_pass, record_unchanged>>

\* the callbacks of the passes (early_gimple_passes, all_ipa_passes,
\* override_gate_callback, pass_execution_callback): trace_pass.push_front
pass_callback ==
  /\ pc = "record" /\ NRecorded < MaxRecorded
  /\ \E kind \in PassEventKind, p \in PassTargets :
       trace_pass' = <<EventRecord("pass", kind, "", p.name, p.decl,
                                   IF p.decl = NULL_TREE THEN NoUid ELSE DECL_PT_UID(p.decl),
                                   now(ClockStart + NRecorded + 1), NRecorded + 1)>>
                       \o trace_pass
  /\ UNCHANGED <<trace_unit, trace_include, trace_parse, record_unchanged>>

\* a reverse that leaves the list as push_front built it, newest first
reverse_none(list) == list

\* std::forward_list::reverse
reverse(list) == [i \in 1..Len(list) |-> list[Len(list) + 1 - i]]

\* std::min of a non-empty set of time points
Min(S) == CHOOSE x \in S : \A y \in S : x <= y

\* an epoch taken from trace_unit alone
finish_callback_epoch_unit(tu, ti, tp, ts) ==
  IF tu = <<>> THEN TIME_MAX ELSE Head(tu).timestamp

\* the epoch of finish_callback: the least of the time points of the fronts
\* of the four reversed buffers, max() standing for an empty buffer
finish_callback_epoch(tu, ti, tp, ts) ==
  Min({IF tu = <<>> THEN TIME_MAX ELSE Head(tu).timestamp,
       IF ti = <<>> THEN TIME_MAX ELSE Head(ti).timestamp,
       IF tp = <<>> THEN TIME_MAX ELSE Head(tp).timestamp,
       IF ts = <<>> THEN TIME_MAX ELSE Head(ts).timestamp})

\* finish_callback up to the construction of the writer
finish_callback_begin ==
  /\ trace_unit' = reverse(trace_unit)
  /\ trace_include' = reverse(trace_include)
  /\ trace_parse' = reverse(trace_parse)
  /\ trace_pass' = reverse(trace_pass)
  /\ epoch' = finish_callback_epoch(reverse(trace_unit), reverse(trace_include),
                                    reverse(trace_parse), reverse(trace_pass))
  /\ UNCHANGED <<tracker_vars, calls, slice_count, decl_name_cache, lookups, stage, nsub,
                 submitted, escape_vars>>

\* finish_callback when fopen returns a FILE: the buffers are reversed, the
\* epoch is computed and the constructor of TraceWriter prints "["
finish_callback_open ==
  /\ pc = "record"
  /\ finish_callback_begin
  /\ file' = "open"
  /\ doc' = <<OpenBracket>>
  /\ pc' = "opened"

\* finish_callback when fopen returns NULL: guard.file is not tested and the
\* constructor of TraceWriter calls fprintf(NULL, "["), which is undefined:
\* the write ends the host ("aborted") or returns ("wrote_null")
finish_callback_open_null ==
  /\ pc = "record"
  /\ finish_callback_begin
  /\ file' = "null"
  /\ doc' = doc
  /\ pc' \in {"aborted", "wrote_null"}

\* a push_event whose Include events go through the stack of the Unit events
push_event_shared(T, record) ==
  CASE record.cat = "unit" -> push_event_unit(T, record)
    [] record.cat = "include" -> push_event_unit(T, record)
    [] record.cat = "parse" -> push_event_parse(T, record)
    [] record.cat = "pass" -> push_event_pass(T, record)

\* EventTracker::push_event, by the type of the record
push_event(T, record) ==
  CASE record.cat = "unit" -> push_event_unit(T, record)
    [] record.cat = "include" -> push_event_include(T, record)
    [] record.cat = "parse" -> push_event_parse(T, record)
    [] record.cat = "pass" -> push_event_pass(T, record)

\* the four loops of finish_callback over the records in events: the tracker,
\* the writer and the calls made at the end
RECURSIVE replay_loops(_, _, _)
replay_loops(T, W, events) ==
  IF events = <<>> THEN [T |-> T, W |-> W, out |-> <<>>]
  ELSE LET r == push_event(T, Head(events))
           rest == replay_loops(r.T, run_callbacks(W, r.out), Tail(events))
       IN  [T |-> rest.T, W |-> rest.W, out |-> r.out \o rest.out]

\* the four loops of finish_callback
finish_callback_replay ==
  /\ pc = "opened"
  /\ LET events == trace_unit \o trace_include \o trace_parse \o trace_pass
         r == replay_loops(Tracker, Writer, events)
     IN  /\ unit_events' = r.T.unit
         /\ include_events' = r.T.include
         /\ parse_events' = r.T.parse
         /\ genericize_events' = r.T.genericize
         /\ pass_events' = r.T.pass
         /\ calls' = calls \o r.out
         /\ doc' = r.W.doc
         /\ slice_count' = r.W.slice_count
         /\ decl_name_cache' = r.W.decl_name_cache
         /\ epoch' = r.W.epoch
         /\ lookups' = r.W.lookups
         /\ submitted' = events
         /\ nsub' = Len(events)
  /\ stage' = 4
  /\ pc' = "replay"
  /\ UNCHANGED <<file, buffer_vars, escape_vars>>

\* writer.write_slice("plugin_dump", dump_start, dump_end): dump_start was
\* read on entry to finish_callback, dump_end is read now
finish_callback_dump ==
  /\ pc = "finished"
  /\ LET dump_start == now(ClockStart + NRecorded + 1)
         dump_end == now(ClockStart + NRecorded + 2)
         W == write_slice_custom(Writer, "plugin_dump", dump_start, dump_end)
     IN  /\ doc' = W.doc
         /\ slice_count' = W.slice_count
         /\ decl_name_cache' = W.decl_name_cache
         /\ epoch' = W.epoch
         /\ lookups' = W.lookups
  /\ pc' = "dumped"
  /\ UNCHANGED <<tracker_vars, calls, file, stage, nsub, submitted, buffer_vars, escape_vars>>

NextPlugin ==
  \/ unit_callback
  \/ cb_file_change
  \/ parse_function_callback
  \/ pass_callback
  \/ finish_callback_open
  \/ finish_callback_open_null
  \/ finish_callback_replay
  \/ Finish
  \/ finish_callback_dump
  \/ DestroyTracker
  \/ DestroyWriter
  \/ CloseFile

SpecPlugin == InitPlugin /\ [][NextPlugin]_vars

(* -------------------------------- C14 ---------------------------------- *)

\* the records of the four buffers
Recorded == Range(trace_unit) \cup Range(trace_include) \cup Range(trace_parse)
              \cup Range(trace_pass)

\* the least timestamp recorded
MinRecorded == Min({r.timestamp : r \in Recorded})

\* the time point a report of the tracker is written at
StartOf(c) == IF c.op = "on_match" THEN c.start.timestamp ELSE c.end.timestamp

\* the relative timestamps of the entries of the document
EntryTimes == {doc[i].ts : i \in {j \in 1..Len(doc) : IsEntry(doc[j])}}

\* the four loops are over
Replayed == pc \in {"replay", "finished", "dumped", "tracker_destroyed",
                    "writer_destroyed", "closed"}

\* tracker.finish() and write_slice("plugin_dump") are over
Dumped == pc \in {"dumped", "tracker_destroyed", "writer_destroyed", "closed"}

\* the epoch handed to the writer is the least timestamp recorded and every
\* entry written for a report of the tracker stands at its start less the
\* epoch
EpochIsLeast ==
  (Replayed /\ NRecorded > 0) =>
    /\ epoch = MinRecorded
    /\ LET written == WrittenCalls
           entries == TrackerEntries
       IN  /\ Len(entries) = Len(written)
           /\ \A i \in 1..Len(written) :
                /\ entries[i].ts = StartOf(written[i]) - epoch
                /\ entries[i].ts >= 0

\* C14 as stated: when at least one event was recorded, the epoch handed to
\* the writer is the least timestamp of the records of the four buffers,
\* every entry stands at its start less the epoch, and the earliest entry of
\* the document stands at zero.
C14_EarliestEntryAtZero ==
  /\ EpochIsLeast
  /\ (Dumped /\ NRecorded > 0) => Min(EntryTimes) = 0

\* C14 as amended: when at least one event was recorded, the epoch handed to
\* the writer is the least timestamp of the records of the four buffers and
\* every entry stands at its start less the epoch; the earliest entry of the
\* document stands at zero when a record that carries the least timestamp
\* is written, that is, is not a Parse Start left pending at shutdown.
C14_EarliestWrittenAtZero ==
  /\ EpochIsLeast
  /\ (/\ Dumped /\ NRecorded > 0
      /\ \E r \in Recorded : /\ r.timestamp = MinRecorded
                             /\ on_mismatch(r) \notin Mismatches
                                  \/ ~ (r.cat = "parse" /\ r.kind = "Start"))
       => Min(EntryTimes) = 0

\* a run that recorded events of two categories after the clock had
\* advanced and wrote an entry at zero and an entry later than zero
C14_Witness ==
  /\ pc = "closed"
  /\ trace_include # <<>> /\ trace_pass # <<>>
  /\ epoch > 0
  /\ \E i, j \in 1..Len(TrackerEntries) : TrackerEntries[i].ts = 0 /\ TrackerEntries[j].ts > 0

(* -------------------------------- C16 ---------------------------------- *)

Digits == {"0", "1", "2", "3", "4", "5", "6", "7", "8", "9"}

DigitValue(c) ==
  CASE c = "0" -> 0 [] c = "1" -> 1 [] c = "2" -> 2 [] c = "3" -> 3 [] c = "4" -> 4
    [] c = "5" -> 5 [] c = "6" -> 6 [] c = "7" -> 7 [] c = "8" -> 8 [] c = "9" -> 9

RECURSIVE AllDigits(_)
AllDigits(text) == text = "" \/ (Head(text) \in Digits /\ AllDigits(Tail(text)))

\* the number written by a string of digits, after the digits read as acc
RECURSIVE DigitsValue(_, _)
DigitsValue(text, acc) ==
  IF text = "" THEN acc ELSE DigitsValue(Tail(text), 10 * acc + DigitValue(Head(text)))

\* what stands before the first "." of a text
RECURSIVE BeforeDot(_)
BeforeDot(text) ==
  IF text = "" \/ Head(text) = "." THEN "" ELSE Head(text) \o BeforeDot(Tail(text))

\* a JSON number of the form -?digits.ddd read as a count of thousandths
read_thousandths(text) ==
  LET negative == text # "" /\ Head(text) = "-"
      body == IF negative THEN Tail(text) ELSE text
      whole == BeforeDot(body)
      frac == IF Len(body) > Len(whole) THEN SubSeq(body, Len(whole) + 2, Len(body)) ELSE ""
  IN  IF /\ whole # "" /\ AllDigits(whole)
         /\ Len(frac) = 3 /\ AllDigits(frac)
        THEN [ok |-> TRUE,
              value |-> (IF negative THEN -1 ELSE 1)
                          * (1000 * DigitsValue(whole, 0) + DigitsValue(frac, 0))]
        ELSE [ok |-> FALSE, value |-> 0]

\* text is a count of n nanoseconds written in microseconds
WritesNanoseconds(text, n) ==
  LET r == read_thousandths(text) IN r.ok /\ r.value = n

\* C16: every timestamp and every duration of the document, a count of n
\* nanoseconds, is written as a whole part, a point and exactly three
\* digits, and the number written times 1000 is n.
C16_ExactMicroseconds ==
  \A i \in 1..Len(doc) : IsEntry(doc[i]) =>
    /\ WritesNanoseconds(doc[i].ts_text, doc[i].ts)
    /\ doc[i].ph = "X" => WritesNanoseconds(doc[i].dur_text, doc[i].dur)

(* -------------------------------- C17 ---------------------------------- *)

\* every double quote of text stands after a backslash that escapes it
RECURSIVE QuotesEscaped(_)
QuotesEscaped(text) ==
  IF text = "" THEN TRUE
  ELSE IF Head(text) = "\"" THEN FALSE
  ELSE IF Head(text) = "\\" /\ Len(text) >= 2 THEN QuotesEscaped(Tail(Tail(text)))
  ELSE QuotesEscaped(Tail(text))

\* C17: in every string the serializer embeds in the document, the name of
\* an entry (a pass name included), the path of an Include file and the name
\* of a function, every double quote is escaped.
C17_EmbeddedStringsEscaped ==
  \A i \in 1..Len(doc) : IsEntry(doc[i]) =>
    /\ QuotesEscaped(doc[i].name)
    /\ \A k \in 1..Len(doc[i].args) : QuotesEscaped(doc[i].args[k].value)

(* -------------------------------- C20 ---------------------------------- *)

\* C20: when fopen returns NULL, finish_callback writes nothing to the
\* missing sink, does not close it, and does not end the host.
C20_OpenFailureSurfaced ==
  file = "null" => pc \notin {"wrote_null", "aborted"}

(* -------------------------------- C21 ---------------------------------- *)

\* the place of a category in the four loops of finish_callback
LoopOf(cat) ==
  CASE cat = "unit" -> 1 [] cat = "include" -> 2 [] cat = "parse" -> 3 [] cat = "pass" -> 4

\* the records handed to push_event are the records of the buffers, each
\* with the timestamp read when its callback ran
CarriesCapturedTimestamps ==
  /\ Len(submitted) = NRecorded
  /\ Submitted = Recorded
  /\ \A r \in Submitted : r.timestamp = now(ClockStart + r.seq)
  /\ \A i \in 1..Len(calls) :
       /\ calls[i].end \in Recorded
       /\ calls[i].op = "on_match" => calls[i].start \in Recorded

\* C21 as stated: of two recorded events, of one category or of two, the one
\* observed first is handed to push_event first, each with the timestamp
\* read when it was observed.
C21_ArrivalOrder ==
  Replayed =>
    /\ CarriesCapturedTimestamps
    /\ \A i, j \in 1..Len(submitted) : i < j => submitted[i].seq < submitted[j].seq

\* C21 as amended: the recorded events are handed to push_event one at a
\* time, category by category (unit, include, parse, pass) and, within one
\* category, the one observed first is handed first; each carries the
\* timestamp read when it was observed.
C21_CategoryThenArrivalOrder ==
  Replayed =>
    /\ CarriesCapturedTimestamps
    /\ \A i, j \in 1..Len(submitted) : i < j =>
         /\ LoopOf(submitted[i].cat) <= LoopOf(submitted[j].cat)
         /\ submitted[i].cat = submitted[j].cat => submitted[i].seq < submitted[j].seq

\* three events were replayed, two of one category in the order observed
\* and one of another category ahead of an event observed before it
C21_Witness ==
  /\ pc = "closed"
  /\ Len(submitted) = 3
  /\ \E i, j \in 1..3 : /\ i < j /\ submitted[i].cat = submitted[j].cat
                        /\ submitted[i].seq < submitted[j].seq
  /\ \E i, j \in 1..3 : i < j /\ submitted[i].seq > submitted[j].seq

(* -------------------------------- C22 ---------------------------------- *)

\* the place of the collection that holds a pending record in finish()
FlushRank(r) ==
  CASE r.cat = "unit" -> 1
    [] r.cat = "include" -> 2
    [] r.cat = "parse" /\ r.kind = "Start" -> 3
    [] r.cat = "parse" -> 4
    [] r.cat = "pass" -> 5

\* a and b are pending in the same stack
SamePendingStack(a, b) == SameStack(a, b) /\ FlushRank(a) = FlushRank(b)

\* the reports of one finish(): only mismatches, collection by collection in
\* the order unit, include, parse, genericize, pass, one stack after the
\* other, and within one stack the record submitted last first
FlushOrdered(cs) ==
  /\ \A i \in 1..Len(cs) : cs[i].op = "on_mismatch"
  /\ \A i, j \in 1..Len(cs) : i < j =>
       /\ FlushRank(cs[i].end) <= FlushRank(cs[j].end)
       /\ SamePendingStack(cs[i].end, cs[j].end) =>
            /\ cs[i].end.seq > cs[j].end.seq
            /\ \A k \in i..j : SamePendingStack(cs[i].end, cs[k].end)

\* C22: finish() reports the pending begins collection by collection in the
\* order unit, include, parse, genericize, pass, and the entries of one stack
\* from the front to the back: the pending begin submitted last is reported
\* first and the oldest last.
C22_FlushOrder == [][IsFinish => FlushOrdered(NewCalls)]_vars

\* finish() reported four pending begins of at least two collections, two
\* of them from one stack
C22_Witness ==
  /\ pc = "finished"
  /\ Len(calls) = 4
  /\ \A i \in 1..4 : calls[i].op = "on_mismatch" /\ IsBegin(calls[i].end)
  /\ \E i, j \in 1..4 : i < j /\ SamePendingStack(calls[i].end, calls[j].end)
  /\ \E i, j \in 1..4 : FlushRank(calls[i].end) < FlushRank(calls[j].end)

(* -------------------------------- C23 ---------------------------------- *)

\* an EventTracker just constructed
EmptyTracker ==
  [unit |-> <<>>, include |-> <<>>, parse |-> <<>>, genericize |-> <<>>, pass |-> <<>>]

\* push_event for each record of events in turn: the tracker and the calls
\* made at the end
RECURSIVE push_all(_, _)
push_all(T, events) ==
  IF events = <<>> THEN [T |-> T, out |-> <<>>]
  ELSE LET r == push_event(T, Head(events))
           rest == push_all(r.T, Tail(events))
       IN  [T |-> rest.T, out |-> r.out \o rest.out]

\* the calls of a fresh tracker given events and then finish()
TrackerRun(events) ==
  LET r == push_all(EmptyTracker, events)
      f == finish(r.T, CHOOSE o \in IterationOrders(DOMAIN r.T.parse) : TRUE,
                  CHOOSE o \in IterationOrders(DOMAIN r.T.genericize) : TRUE,
                  CHOOSE o \in IterationOrders(DOMAIN r.T.pass) : TRUE)
  IN  r.out \o f.out

\* the recorded events in the order they were observed
Chronological == [i \in 1..NRecorded |-> CHOOSE r \in Recorded : r.seq = i]

\* C23: the replay of finish_callback, category by category and then
\* finish(), makes the same matches (start, end) and reports the same
\* mismatches as a tracker given the same events in the order they were
\* observed, followed by finish().
C23_ReplayEquivalence ==
  pc = "finished" =>
    LET chronological == Range(TrackerRun(Chronological))
    IN  /\ Matches = {c \in chronological : c.op = "on_match"}
        /\ Mismatches = {c \in chronological : c.op = "on_mismatch"}
        /\ Len(calls) = Cardinality(chronological)

\* events of two categories were observed interleaved, replayed category by
\* category, and gave a match and a mismatch
C23_Witness ==
  /\ pc = "finished"
  /\ submitted # Chronological
  /\ Matches # {} /\ Mismatches # {}

(* -------------------------------- C24 ---------------------------------- *)

\* how many calls handed r to the callback as the start of a match, as the
\* end of a match, as a mismatch
AsStart(r) == Cardinality({i \in 1..Len(calls) : calls[i].op = "on_match" /\ calls[i].start = r})

AsEnd(r) == Cardinality({i \in 1..Len(calls) : calls[i].op = "on_match" /\ calls[i].end = r})

AsMismatch(r) ==
  Cardinality({i \in 1..Len(calls) : calls[i].op = "on_mismatch" /\ calls[i].end = r})

\* C24: once finish() has run, every submitted Unit, Include, Pass, Parse
\* Start and Parse Finish event was handed to the callback exactly once, as
\* the start of a match, the end of a match or a mismatch; every Parse
\* PreGenericize event was handed exactly once as a begin (start of a match
\* or mismatch) and at most once as the end of a match; and at no point was
\* an event reported as a mismatch twice, or handed over for an event that
\* was not submitted.
C24_Accounting ==
  /\ \A r \in Submitted : AsMismatch(r) <= 1
  /\ \A i \in 1..Len(calls) :
       /\ calls[i].end \in Submitted
       /\ calls[i].op = "on_match" => calls[i].start \in Submitted
  /\ pc # "replay" =>
       \A r \in Submitted :
         IF r.cat = "parse" /\ r.kind = "PreGenericize"
           THEN AsStart(r) + AsMismatch(r) = 1 /\ AsEnd(r) <= 1
           ELSE AsStart(r) + AsEnd(r) + AsMismatch(r) = 1

\* the whole of finish_callback has run on a Parse PreGenericize that ended
\* a parse interval and began a genericize interval, and on an event
\* reported as a mismatch
C24_Witness ==
  /\ pc = "closed"
  /\ \E r \in Submitted : /\ r.cat = "parse" /\ r.kind = "PreGenericize"
                          /\ AsEnd(r) = 1 /\ AsStart(r) = 1
  /\ \E r \in Submitted : AsMismatch(r) = 1

(* -------------------------------- C25 ---------------------------------- *)

\* C25: in every run, the run that recorded no event included, every entry
\* of the document, "plugin_dump" included, stands at a relative timestamp
\* that is not negative and has a duration that is not negative.
C25_NonNegativeTimes ==
  \A i \in 1..Len(doc) : IsEntry(doc[i]) => doc[i].ts >= 0 /\ doc[i].dur >= 0

====
